---- MODULE Spec2Model ----
(***************************************************************************)
(* Model of the Chaitanya Academy link finder (src/streamlit_app.py,       *)
(* duplicated in src/utils.py): search_data with the text normalisation    *)
(* it uses and the date sort, get_sources_list, highlight_search_terms,    *)
(* compare_dates and the session of main() with its pagination.            *)
(*                                                                         *)
(* Text is a sequence of characters.  A character is a one-element token:  *)
(* ASCII characters stand for themselves ("s", "K", ";"), "x^" is the      *)
(* Latvian letter x with its diacritic ("s^" is s-caron, "S^" its capital, *)
(* "i^" is i-macron), "x." / "x'" / "x~" are the IAST letters, and "c:x"   *)
(* is the Cyrillic letter the table of transliterate writes for x ("c:s"   *)
(* is Cyrillic es, "C:S" its capital).                                     *)
(***************************************************************************)
EXTENDS Integers, Sequences, FiniteSets, TLC

VARIABLES
  df,              \* the dataframe handed to search_data
  search_input,    \* the raw query
  search_results,  \* session_state.search_results
  search_time,     \* session_state.search_time
  total_results,   \* session_state.total_results
  searched,        \* the session holds the answer to search_input
  first,           \* history: the first answer to search_input, and whether
                   \* another query was answered after it
  df0,             \* history: the dataframe as loaded
  session_search_term,  \* session_state.search_term
  current_page,    \* session_state.current_page
  event,           \* history: the operation that ran last
  arg,             \* the text handed to a function of the normaliser
  out,             \* what the function returned
  hl               \* highlight_search_terms: its position and its result

vars == <<df, search_input, search_results, search_time, total_results,
          searched, first, df0, session_search_term, current_page, event,
          arg, out, hl>>

(***************************************************************************)
(* Bounds of the model.                                                    *)
(***************************************************************************)
MaxQueryLen == 3
MaxElapsed == 1

(***************************************************************************)
(* str.lower, str.strip, str.split, "in" on strings.                       *)
(***************************************************************************)
LowerPairs ==
  { <<"A","a">>, <<"B","b">>, <<"C","c">>, <<"D","d">>, <<"E","e">>, <<"F","f">>,
    <<"G","g">>, <<"H","h">>, <<"I","i">>, <<"J","j">>, <<"K","k">>, <<"L","l">>,
    <<"M","m">>, <<"N","n">>, <<"O","o">>, <<"P","p">>, <<"Q","q">>, <<"R","r">>,
    <<"S","s">>, <<"T","t">>, <<"U","u">>, <<"V","v">>, <<"W","w">>, <<"X","x">>,
    <<"Y","y">>, <<"Z","z">>,
    <<"A^","a^">>, <<"C^","c^">>, <<"E^","e^">>, <<"G^","g^">>, <<"I^","i^">>,
    <<"K^","k^">>, <<"L^","l^">>, <<"N^","n^">>, <<"S^","s^">>, <<"U^","u^">>,
    <<"Z^","z^">>,
    <<"C:S","c:s">>, <<"C:K","c:k">> }

UpperChars == {p[1] : p \in LowerPairs}

LowerMap == [c \in UpperChars |-> (CHOOSE p \in LowerPairs : p[1] = c)[2]]

lower(text) ==
  [i \in 1..Len(text) |->
     IF text[i] \in UpperChars THEN LowerMap[text[i]] ELSE text[i]]

Whitespace == {" "}

RECURSIVE lstrip(_)
lstrip(text) ==
  IF text # <<>> /\ Head(text) \in Whitespace THEN lstrip(Tail(text)) ELSE text

RECURSIVE rstrip(_)
rstrip(text) ==
  IF text # <<>> /\ text[Len(text)] \in Whitespace
  THEN rstrip(SubSeq(text, 1, Len(text) - 1))
  ELSE text

strip(text) == rstrip(lstrip(text))

\* sub in text
contains(text, sub) ==
  \E i \in 0..(Len(text) - Len(sub)) : SubSeq(text, i + 1, i + Len(sub)) = sub

startswith(text, prefix) ==
  Len(text) >= Len(prefix) /\ SubSeq(text, 1, Len(prefix)) = prefix

\* text.split(sep) for a non-empty separator: the pieces between the
\* left-to-right, non-overlapping occurrences of sep (always at least one piece).
RECURSIVE split_from(_, _, _)
split_from(text, sep, piece) ==
  IF text = <<>> THEN <<piece>>
  ELSE IF startswith(text, sep)
       THEN <<piece>> \o split_from(SubSeq(text, Len(sep) + 1, Len(text)), sep, <<>>)
       ELSE split_from(Tail(text), sep, Append(piece, Head(text)))

split(text, sep) == split_from(text, sep, <<>>)

\* [f(x) for x in xs]   and   [x for x in xs if x]
nonempty(xs) == SelectSeq(xs, LAMBDA x : x # <<>>)
stripped(xs) == [i \in 1..Len(xs) |-> strip(xs[i])]

(***************************************************************************)
(* remove_diacritics: the literal substitution table.  Every replacement   *)
(* is a plain ASCII letter and none is itself a key, so the chain of       *)
(* str.replace calls maps each character on its own.                       *)
(***************************************************************************)
diacritics_pairs ==
  { <<"a^","a">>, <<"c^","c">>, <<"e^","e">>, <<"g^","g">>, <<"i^","i">>, <<"k^","k">>,
    <<"l^","l">>, <<"n^","n">>, <<"s^","s">>, <<"u^","u">>, <<"z^","z">>,
    <<"A^","A">>, <<"C^","C">>, <<"E^","E">>, <<"G^","G">>, <<"I^","I">>, <<"K^","K">>,
    <<"L^","L">>, <<"N^","N">>, <<"S^","S">>, <<"U^","U">>, <<"Z^","Z">>,
    <<"s'","s">>, <<"s.","s">>, <<"m.","m">>, <<"d.","d">>, <<"t.","t">>,
    <<"n.","n">>, <<"n'","n">>, <<"n~","n">>, <<"r.","r">>, <<"l.","l">> }

diacritics_keys == {p[1] : p \in diacritics_pairs}

diacritics_map == [c \in diacritics_keys |->
                     (CHOOSE p \in diacritics_pairs : p[1] = c)[2]]

remove_diacritics(text) ==
  [i \in 1..Len(text) |->
     IF text[i] \in diacritics_keys THEN diacritics_map[text[i]] ELSE text[i]]

(***************************************************************************)
(* transliterate: Latin to Cyrillic, longest key first.                    *)
(***************************************************************************)
transliteration_pairs ==
  { <<<<"a">>, <<"c:a">>>>, <<<<"b">>, <<"c:b">>>>, <<<<"v">>, <<"c:v">>>>,
    <<<<"g">>, <<"c:g">>>>, <<<<"d">>, <<"c:d">>>>, <<<<"e">>, <<"c:e">>>>,
    <<<<"y","o">>, <<"c:yo">>>>, <<<<"z","h">>, <<"c:zh">>>>, <<<<"z">>, <<"c:z">>>>,
    <<<<"i">>, <<"c:i">>>>, <<<<"y">>, <<"c:y">>>>, <<<<"k">>, <<"c:k">>>>,
    <<<<"l">>, <<"c:l">>>>, <<<<"m">>, <<"c:m">>>>, <<<<"n">>, <<"c:n">>>>,
    <<<<"o">>, <<"c:o">>>>, <<<<"p">>, <<"c:p">>>>, <<<<"r">>, <<"c:r">>>>,
    <<<<"s">>, <<"c:s">>>>, <<<<"t">>, <<"c:t">>>>, <<<<"u">>, <<"c:u">>>>,
    <<<<"f">>, <<"c:f">>>>, <<<<"h">>, <<"c:h">>>>, <<<<"t","s">>, <<"c:ts">>>>,
    <<<<"c","h">>, <<"c:ch">>>>, <<<<"s","h">>, <<"c:sh">>>>,
    <<<<"s","c","h">>, <<"c:sch">>>>, <<<<"y","u">>, <<"c:yu">>>>,
    <<<<"y","a">>, <<"c:ya">>>>, <<<<"j">>, <<"c:d","c:zh">>>> }

transliteration_keys == {p[1] : p \in transliteration_pairs}

transliteration_map == [k \in transliteration_keys |->
                          (CHOOSE p \in transliteration_pairs : p[1] = k)[2]]

\* mutant: the lengths tried in the order 1, 2, 3
match_length_shortest(word_lower, i) ==
  LET hit(length) == /\ i + length <= Len(word_lower)
                     /\ SubSeq(word_lower, i + 1, i + length) \in transliteration_keys
  IN  IF hit(1) THEN 1 ELSE IF hit(2) THEN 2 ELSE IF hit(3) THEN 3 ELSE 0

\* the first of the lengths 3, 2, 1 whose substring at i (0-based) is a key; 0 if none
match_length(word_lower, i) ==
  LET hit(length) == /\ i + length <= Len(word_lower)
                     /\ SubSeq(word_lower, i + 1, i + length) \in transliteration_keys
  IN  IF hit(3) THEN 3 ELSE IF hit(2) THEN 2 ELSE IF hit(1) THEN 1 ELSE 0

RECURSIVE transliterate_from(_, _)
transliterate_from(word_lower, i) ==
  IF i >= Len(word_lower) THEN <<>>
  ELSE LET length == match_length(word_lower, i)
       IN  IF length > 0
           THEN transliteration_map[SubSeq(word_lower, i + 1, i + length)]
                  \o transliterate_from(word_lower, i + length)
           ELSE <<word_lower[i + 1]>> \o transliterate_from(word_lower, i + 1)

transliterate(word) == transliterate_from(lower(word), 0)

(***************************************************************************)
(* parse_date_for_sorting.  int() accepts surrounding whitespace, a sign   *)
(* and single underscores between digits; anything else raises ValueError, *)
(* which the function answers with the sentinel key.                       *)
(***************************************************************************)
Digits == <<"0","1","2","3","4","5","6","7","8","9">>

DigitChars == {Digits[i] : i \in 1..10}

digit_value(c) == (CHOOSE i \in 1..10 : Digits[i] = c) - 1

RECURSIVE digits_value(_, _)
digits_value(text, acc) ==
  IF text = <<>> THEN acc
  ELSE IF Head(text) = "_" THEN digits_value(Tail(text), acc)
       ELSE digits_value(Tail(text), 10 * acc + digit_value(Head(text)))

\* the literal after the sign: digits, with single underscores only between digits
int_body_ok(body) ==
  /\ body # <<>>
  /\ \A i \in 1..Len(body) : body[i] \in DigitChars \cup {"_"}
  /\ body[1] # "_" /\ body[Len(body)] # "_"
  /\ \A i \in 1..(Len(body) - 1) : ~(body[i] = "_" /\ body[i + 1] = "_")

int_unsigned(text) ==
  LET t == strip(text)
  IN  IF t # <<>> /\ Head(t) \in {"+", "-"} THEN Tail(t) ELSE t

int_ok(text) == int_body_ok(int_unsigned(text))

int(text) ==
  LET t == strip(text)
      v == digits_value(int_unsigned(text), 0)
  IN  IF t # <<>> /\ Head(t) = "-" THEN 0 - v ELSE v

SentinelYear == 9999
SentinelPart == 99

unknown_key == <<SentinelYear, SentinelPart, SentinelPart>>

\* mutant: the date text is split as it is written, without strip()
parse_date_unstripped(date_str) ==
  IF date_str = <<>> \/ lower(date_str) = <<"u","n","k","n","o","w","n">>
  THEN unknown_key
  ELSE LET s == date_str
           parts == split(s, <<".">>)
           xx == <<"x","x">>
       IN  IF contains(s, <<".">>) /\ Len(parts) = 3
              /\ \A i \in 1..3 : parts[i] = xx \/ int_ok(parts[i])
           THEN << IF parts[1] # xx THEN int(parts[1]) ELSE SentinelYear,
                   IF parts[2] # xx THEN int(parts[2]) ELSE SentinelPart,
                   IF parts[3] # xx THEN int(parts[3]) ELSE SentinelPart >>
           ELSE unknown_key

parse_date_for_sorting(date_str) ==
  IF date_str = <<>> \/ lower(date_str) = <<"u","n","k","n","o","w","n">>
  THEN unknown_key
  ELSE LET s == strip(date_str)
           parts == split(s, <<".">>)
           xx == <<"x","x">>
       IN  IF contains(s, <<".">>) /\ Len(parts) = 3
              /\ \A i \in 1..3 : parts[i] = xx \/ int_ok(parts[i])
           THEN << IF parts[1] # xx THEN int(parts[1]) ELSE SentinelYear,
                   IF parts[2] # xx THEN int(parts[2]) ELSE SentinelPart,
                   IF parts[3] # xx THEN int(parts[3]) ELSE SentinelPart >>
           ELSE unknown_key

(***************************************************************************)
(* The dataframe: a sequence of rows, each a function from the column      *)
(* names to text.  The loader gives every dataframe the required columns   *)
(* and fills missing cells with "".                                        *)
(***************************************************************************)
required_columns ==
  { "Date", "Type", "Subtype", "Nr.", "Original file name", "Country", "Lang.",
    "Links", "Dwnld.", "Length", "Source" }

\* mutant: Source is searched like the other columns
search_columns_with_source ==
  << "Date", "Type", "Subtype", "Nr.", "Original file name", "Country", "Lang.",
     "Links", "Dwnld.", "Length", "Source" >>

search_columns ==
  << "Date", "Type", "Subtype", "Nr.", "Original file name", "Country", "Lang.",
     "Links", "Dwnld.", "Length" >>

columns(frame) == IF frame = <<>> THEN {} ELSE DOMAIN frame[1]

empty(frame) == Len(frame) = 0 \/ columns(frame) = {}

\* frame[mask]: the rows whose mask is True, in the frame's order
RECURSIVE select_rows(_, _, _)
select_rows(frame, mask, i) ==
  IF i > Len(frame) THEN <<>>
  ELSE (IF mask[i] THEN <<frame[i]>> ELSE <<>>) \o select_rows(frame, mask, i + 1)

(***************************************************************************)
(* The date sort: sorted(range(n), key = sort_keys, reverse = True).       *)
(* Tuples compare lexicographically.  sorted is the stable list sort; with *)
(* reverse = True it reverses the list, sorts it ascending (a new element  *)
(* goes after every element that is not greater), and reverses the result. *)
(***************************************************************************)
key_less(a, b) ==
  \/ a[1] < b[1]
  \/ a[1] = b[1] /\ a[2] < b[2]
  \/ a[1] = b[1] /\ a[2] = b[2] /\ a[3] < b[3]

reversed(xs) == [i \in 1..Len(xs) |-> xs[Len(xs) + 1 - i]]

RECURSIVE insert_after_equal(_, _, _)
insert_after_equal(x, xs, keys) ==
  IF xs = <<>> THEN <<x>>
  ELSE IF key_less(keys[x], keys[Head(xs)])
       THEN <<x>> \o xs
       ELSE <<Head(xs)>> \o insert_after_equal(x, Tail(xs), keys)

RECURSIVE sort_ascending(_, _, _)
sort_ascending(xs, keys, done) ==
  IF xs = <<>> THEN done
  ELSE sort_ascending(Tail(xs), keys, insert_after_equal(Head(xs), done, keys))

\* mutant: reverse = True is missing
sorted_not_reversed(xs, keys) == sort_ascending(xs, keys, <<>>)

\* mutant: sorted(...)[::-1] for sorted(..., reverse = True)
sorted_then_reversed(xs, keys) == reversed(sort_ascending(xs, keys, <<>>))

sorted_reverse(xs, keys) == reversed(sort_ascending(reversed(xs), keys, <<>>))

sort_by_date(frame) ==
  LET sort_keys == [i \in 1..Len(frame) |-> parse_date_for_sorting(frame[i]["Date"])]
      sorted_indices == sorted_reverse([i \in 1..Len(frame) |-> i], sort_keys)
  IN  [i \in 1..Len(frame) |-> frame[sorted_indices[i]]]

(***************************************************************************)
(* search_data.                                                            *)
(***************************************************************************)
split_search_terms(search_term) ==
  nonempty(stripped(split(lower(search_term), <<";">>)))

is_source_term(term) == startswith(term, <<"@">>)

\* The masks are boolean Series over the rows, combined element by element:
\* each loop below is the loop of the code, followed for one row.

\* mutant: the Source column is not lower-cased
RECURSIVE source_filter_case_sensitive(_, _, _, _)
source_filter_case_sensitive(source_terms, cols, row, source_mask) ==
  IF source_terms = <<>> THEN source_mask
  ELSE LET source_value == lower(Tail(Head(source_terms)))
           hit == /\ "Source" \in cols
                  /\ contains(row["Source"], source_value)
       IN  source_filter_case_sensitive(Tail(source_terms), cols, row, source_mask \/ hit)

\* for source_term in source_terms: source_mask |= Source.lower().contains(...)
RECURSIVE source_filter(_, _, _, _)
source_filter(source_terms, cols, row, source_mask) ==
  IF source_terms = <<>> THEN source_mask
  ELSE LET source_value == lower(Tail(Head(source_terms)))
           hit == /\ "Source" \in cols
                  /\ contains(lower(row["Source"]), source_value)
       IN  source_filter(Tail(source_terms), cols, row, source_mask \/ hit)

\* for col in search_columns: term_mask |= ...contains(normalized_term)
\*                            term_mask |= ...contains(transliterated_term)
RECURSIVE search_columns_loop(_, _, _, _, _, _)
search_columns_loop(todo, cols, row, normalized_term, transliterated_term, term_mask) ==
  IF todo = <<>> THEN term_mask
  ELSE LET col == Head(todo)
           normalized_col_value == remove_diacritics(lower(row[col]))
           hit == /\ col \in cols
                  /\ \/ contains(normalized_col_value, normalized_term)
                     \/ contains(normalized_col_value, transliterated_term)
       IN  search_columns_loop(Tail(todo), cols, row, normalized_term,
                               transliterated_term, term_mask \/ hit)

\* mutant: the term keeps its diacritics
search_single_term_unstripped(or_term, cols, row) ==
  LET normalized_term == lower(or_term)
      transliterated_term == transliterate(normalized_term)
  IN  search_columns_loop(search_columns, cols, row, normalized_term,
                          transliterated_term, FALSE)

search_single_term(or_term, cols, row) ==
  LET normalized_term == remove_diacritics(lower(or_term))
      transliterated_term == transliterate(normalized_term)
  IN  search_columns_loop(search_columns, cols, row, normalized_term,
                          transliterated_term, FALSE)

\* for or_term in or_terms: term_mask |= search_single_term(or_term)
RECURSIVE or_terms_loop(_, _, _, _)
or_terms_loop(or_terms, cols, row, term_mask) ==
  IF or_terms = <<>> THEN term_mask
  ELSE or_terms_loop(Tail(or_terms), cols, row,
                     term_mask \/ search_single_term(Head(or_terms), cols, row))

split_or_terms(term) == nonempty(stripped(split(term, <<"/","/">>)))

\* for term in other_terms: mask &= term_mask
RECURSIVE other_terms_loop(_, _, _, _)
other_terms_loop(other_terms, cols, row, mask) ==
  IF other_terms = <<>> THEN mask
  ELSE LET term_mask == or_terms_loop(split_or_terms(Head(other_terms)), cols, row, FALSE)
       IN  other_terms_loop(Tail(other_terms), cols, row, mask /\ term_mask)

\* mutant: "not search_term" for "not search_term.strip()"
early_return_unstripped(search_term, frame) == empty(frame) \/ search_term = <<>>

early_return(search_term, frame) == empty(frame) \/ strip(search_term) = <<>>

\* mutant: "mask |= term_mask" for "mask &= term_mask"
RECURSIVE other_terms_any(_, _, _, _)
other_terms_any(other_terms, cols, row, mask) ==
  IF other_terms = <<>> THEN mask
  ELSE LET term_mask == or_terms_loop(split_or_terms(Head(other_terms)), cols, row, FALSE)
       IN  other_terms_any(Tail(other_terms), cols, row, mask \/ term_mask)

row_mask_any_group(source_terms, other_terms, cols, row) ==
  /\ source_terms # <<>> => source_filter(source_terms, cols, row, FALSE)
  /\ other_terms # <<>> => other_terms_any(other_terms, cols, row, FALSE)

row_mask(source_terms, other_terms, cols, row) ==
  LET after_source ==
        IF source_terms # <<>>
        THEN TRUE /\ source_filter(source_terms, cols, row, FALSE)
        ELSE TRUE
  IN  other_terms_loop(other_terms, cols, row, after_source)

source_terms_of(search_terms) == SelectSeq(search_terms, is_source_term)

other_terms_of(search_terms) == SelectSeq(search_terms, LAMBDA term : ~is_source_term(term))

search_mask(search_term, frame) ==
  LET search_terms == split_search_terms(search_term)
      source_terms == source_terms_of(search_terms)
      other_terms == other_terms_of(search_terms)
  IN  [i \in 1..Len(frame) |->
         row_mask(source_terms, other_terms, columns(frame), frame[i])]

\* mutant: the rows are sorted in place, in the dataframe of the caller
frame_sorted_in_place(search_term, frame) ==
  IF early_return(search_term, frame) THEN frame ELSE sort_by_date(frame)

\* the dataframe of the caller after the call: df[mask].copy() and the sort
\* work on copies, the argument is left as it was
frame_after_search(search_term, frame) == frame

search_data(search_term, frame) ==
  IF early_return(search_term, frame)
  THEN [filtered_df |-> <<>>, total_results |-> 0, df |-> frame]
  ELSE LET filtered_df == select_rows(frame, search_mask(search_term, frame), 1)
           sorted_df == IF ~empty(filtered_df) /\ "Date" \in columns(filtered_df)
                        THEN sort_by_date(filtered_df)
                        ELSE filtered_df
       IN  [filtered_df |-> sorted_df, total_results |-> Len(sorted_df),
            df |-> frame_after_search(search_term, frame)]

(***************************************************************************)
(* The inputs: a few catalogues and every raw query of up to MaxQueryLen   *)
(* characters over QueryAlphabet, plus some longer ones.                   *)
(***************************************************************************)
Row(date, type, name, source) ==
  [c \in required_columns |->
     CASE c = "Date" -> date
       [] c = "Type" -> type
       [] c = "Original file name" -> name
       [] c = "Source" -> source
       [] OTHER -> <<>>]

Date_2024_01_15 == <<"2","0","2","4",".","0","1",".","1","5">>
Date_2024_xx_xx == <<"2","0","2","4",".","x","x",".","x","x">>
Date_2023_12_31 == <<"2","0","2","3",".","1","2",".","3","1">>
Date_unknown == <<"u","n","k","n","o","w","n">>
Date_2024 == <<"2","0","2","4">>

RowA == Row(Date_2024_01_15, <<>>, <<"S^","k">>, <<"K","s">>)
RowB == Row(Date_2024_xx_xx, <<>>, <<"g">>, <<"s">>)
RowC == Row(Date_unknown, <<>>, <<"c:s">>, <<"k">>)
RowD == Row(Date_2023_12_31, <<>>, <<"s","k">>, <<>>)
RowE == Row(Date_2024_01_15, <<"K">>, <<"g">>, <<"s^">>)
RowF == Row(Date_2024, <<>>, <<"S^">>, <<" ","k">>)

Datasets ==
  { <<>>,
    <<RowA, RowB, RowC, RowD>>,
    <<RowE, RowC, RowA, RowF, RowD>>,
    <<RowF, RowB>> }

QueryAlphabet == {";", "/", "@", " ", "s^", "k"}

ExtraQueries ==
  { <<"s">>, <<"s","k">>, <<"S^","K">>, <<"@","K">>, <<"@","s">>,
    <<"s",";","k">>, <<"s","/","/","k">>, <<"k","/","/","g">>,
    <<"k",";","/","/">>, <<"@","s",";","@","k">>, <<"@","s",";","@","s^">>,
    <<"@","k",";","s","/","/","g">>, <<"s","/","/","k",";","@">>,
    <<" ","k"," ","/","/"," ","g"," ",";"," ","s"," ">>,
    <<" "," "," "," ">>, <<";"," ",";",";">> }

Queries ==
  UNION {[1..n -> QueryAlphabet] : n \in 0..MaxQueryLen} \cup ExtraQueries

\* the queries answered more than once, and the query answered in between
RepeatQueries == {q \in Queries : Len(q) < MaxQueryLen} \cup ExtraQueries

OtherQueries == { <<"k">> }

\* highlight_search_terms has not been called
hl_idle ==
  [step |-> "idle", search_terms |-> <<>>, terms |-> <<>>, or_terms |-> <<>>,
   result |-> <<>>, previous |-> <<>>, or_term |-> <<>>, pattern |-> <<>>,
   last |-> "none",
   added |-> 0, spans |-> 0, diacritic_spans |-> 0]

Init ==
  /\ df \in Datasets
  /\ df0 = df
  /\ search_input \in Queries
  /\ search_results = <<>>
  /\ search_time = 0
  /\ total_results = 0
  /\ searched = FALSE
  /\ first = [done |-> FALSE, results |-> <<>>, total |-> 0, time |-> 0,
              between |-> FALSE]
  /\ session_search_term = <<>>
  /\ current_page = 1
  /\ event = "none"
  /\ arg = <<>>
  /\ out = <<>>
  /\ hl = hl_idle

\* time.time() - start_time, in clock ticks; the early return answers 0.0
elapsed_values(search_term, frame) ==
  IF early_return(search_term, frame) THEN {0} ELSE 0..MaxElapsed

\* search_data(search_input, df), the answer stored in the session
Search ==
  \E r \in {search_data(search_input, df)} :
    /\ search_results' = r.filtered_df
    /\ total_results' = r.total_results
    /\ df' = r.df
    /\ searched' = TRUE
    /\ session_search_term' = IF strip(search_input) = <<>> THEN <<>> ELSE search_input
    /\ current_page' = 1
    /\ event' = "search"
    /\ UNCHANGED <<search_input, df0, arg, out, hl>>
    /\ search_time' \in elapsed_values(search_input, df)
    /\ first' = IF first.done THEN first
                ELSE [done |-> TRUE, results |-> r.filtered_df,
                      total |-> r.total_results, time |-> search_time',
                      between |-> FALSE]

\* another query is answered from the same dataframe in between
OtherSearch ==
  \E q \in OtherQueries :
    \E r \in {search_data(q, df)} :
      /\ search_results' = r.filtered_df
      /\ total_results' = r.total_results
      /\ df' = r.df
      /\ searched' = FALSE
      /\ first' = [first EXCEPT !.between = first.done]
      /\ session_search_term' = q
      /\ current_page' = 1
      /\ event' = "search"
      /\ UNCHANGED <<search_input, df0, arg, out, hl>>
      /\ search_time' \in elapsed_values(q, df)

Next == Search

Spec == Init /\ [][Next]_vars

InitRepeat == Init /\ search_input \in RepeatQueries

NextRepeat == Search \/ OtherSearch

SpecRepeat == InitRepeat /\ [][NextRepeat]_vars

(***************************************************************************)
(* Vocabulary of the properties.                                           *)
(***************************************************************************)
Blank(q) == \A i \in 1..Len(q) : q[i] \in Whitespace

Rows == {df[i] : i \in 1..Len(df)}

InResult(rec) == \E j \in 1..Len(search_results) : search_results[j] = rec

\* the answer stored in the session is the answer to a non-blank search_input
Answered == searched /\ ~Blank(search_input) /\ df # <<>>

Segments(q) == split_search_terms(q)

SourceSegments(q) == {i \in 1..Len(Segments(q)) : Head(Segments(q)[i]) = "@"}

ContentSegments(q) == {i \in 1..Len(Segments(q)) : Head(Segments(q)[i]) # "@"}

\* the source names of q: the text after "@", lower-cased
SourceNames(q) == {lower(Tail(Segments(q)[i])) : i \in SourceSegments(q)}

\* the terms of content segment i of q
GroupTerms(q, i) ==
  LET pieces == split_or_terms(Segments(q)[i])
  IN  {pieces[k] : k \in 1..Len(pieces)}

SearchableFields == required_columns \ {"Source"}

Normal(text) == remove_diacritics(lower(text))

FieldHas(field, term) ==
  \/ contains(Normal(field), Normal(term))
  \/ contains(Normal(field), transliterate(Normal(term)))

TermMatches(term, rec) == \E c \in SearchableFields : FieldHas(rec[c], term)

PassesSource(q, rec) ==
  \E name \in SourceNames(q) : contains(lower(rec["Source"]), name)

PassesGroups(q, rec) ==
  \A i \in ContentSegments(q) : \E term \in GroupTerms(q, i) : TermMatches(term, rec)

(***************************************************************************)
(* C1.  A blank query (empty or whitespace only) is answered with no       *)
(* records, elapsed 0 and totalCount 0, whatever the dataset holds.        *)
(***************************************************************************)
C1_BlankQueryEmpty ==
  (searched /\ Blank(search_input)) =>
     /\ search_results = <<>>
     /\ search_time = 0
     /\ total_results = 0

C1_Witness ==
  /\ searched /\ Blank(search_input) /\ Len(search_input) >= 2
  /\ Len(df) >= 4

(***************************************************************************)
(* C2.  For a non-blank query a record is in the result iff it passes the  *)
(* source filter (when the query has an @source term) and, for every       *)
(* content group, at least one term of the group matches the record in a   *)
(* searchable field.                                                       *)
(***************************************************************************)
C2_SourceAndGroups ==
  Answered =>
    \A rec \in Rows :
      InResult(rec) <=>
        /\ SourceSegments(search_input) # {} => PassesSource(search_input, rec)
        /\ PassesGroups(search_input, rec)

\* a source term, one group of two terms of which only one matches some kept
\* record, a second group, and a result that is neither empty nor everything
C2_Witness ==
  /\ Answered
  /\ SourceSegments(search_input) # {}
  /\ Cardinality(ContentSegments(search_input)) >= 1
  /\ \E i \in ContentSegments(search_input) :
       /\ Cardinality(GroupTerms(search_input, i)) = 2
       /\ \E rec \in Rows : \E t1, t2 \in GroupTerms(search_input, i) :
            InResult(rec) /\ TermMatches(t1, rec) /\ ~TermMatches(t2, rec)
  /\ 0 < total_results /\ total_results < Len(df)

(***************************************************************************)
(* C3.  With @source terms in the query, a record passes source filtering  *)
(* iff its Source, lower-cased, contains one of the source names: nothing  *)
(* else is in the result, and when the query has only @source terms every  *)
(* such record is, whatever its other fields hold.                         *)
(***************************************************************************)
C3_SourceFilter ==
  (Answered /\ SourceSegments(search_input) # {}) =>
    \A rec \in Rows :
      /\ InResult(rec) => PassesSource(search_input, rec)
      /\ (ContentSegments(search_input) = {} /\ PassesSource(search_input, rec))
           => InResult(rec)

\* two source names, each selecting a record the other does not, a record
\* selected through a capital letter of its Source, and a record left out
C3_Witness ==
  /\ Answered
  /\ ContentSegments(search_input) = {}
  /\ \E n1, n2 \in SourceNames(search_input) : \E r1, r2, r3 \in Rows :
       /\ InResult(r1) /\ InResult(r2) /\ InResult(r3)
       /\ contains(lower(r1["Source"]), n1) /\ ~contains(lower(r1["Source"]), n2)
       /\ contains(lower(r2["Source"]), n2) /\ ~contains(lower(r2["Source"]), n1)
       /\ contains(lower(r3["Source"]), n2) /\ ~contains(r3["Source"], n2)
  /\ total_results < Len(df)

(***************************************************************************)
(* C4.  Content terms never match through Source: a record none of whose   *)
(* searchable fields holds any term of some content group is not in the    *)
(* result, also when its Source field holds the term.                      *)
(***************************************************************************)
C4_SourceNotSearched ==
  Answered =>
    \A rec \in Rows :
      (\E i \in ContentSegments(search_input) :
         \A term \in GroupTerms(search_input, i) : ~TermMatches(term, rec))
      => ~InResult(rec)

\* the term occurs in the Source of a record and nowhere else in it, other
\* records are found
C4_Witness ==
  /\ Answered
  /\ SourceSegments(search_input) = {}
  /\ total_results > 0
  /\ \E rec \in Rows : \E i \in ContentSegments(search_input) :
       \E term \in GroupTerms(search_input, i) :
         /\ FieldHas(rec["Source"], term)
         /\ ~TermMatches(term, rec)
         /\ ~InResult(rec)

(***************************************************************************)
(* C5.  Diacritic equivalence: a record is found when, for every content   *)
(* group, some searchable field with its diacritics stripped and           *)
(* lower-cased contains a term of the group stripped and lower-cased.      *)
(***************************************************************************)
StrippedHas(field, term) ==
  contains(remove_diacritics(lower(field)), remove_diacritics(lower(term)))

C5_DiacriticEquivalence ==
  (Answered /\ SourceSegments(search_input) = {}) =>
    \A rec \in Rows :
      (\A i \in ContentSegments(search_input) :
         \E term \in GroupTerms(search_input, i) :
           \E c \in SearchableFields : StrippedHas(rec[c], term))
      => InResult(rec)

HasDiacritic(text) == \E i \in 1..Len(text) : text[i] \in diacritics_keys

\* a one-term query finds a record through a field that holds the term only
\* once diacritics are stripped: the field has a diacritic the term lacks
\* ("sri" finds "S^ri^")
C5_Witness ==
  /\ Answered
  /\ Len(Segments(search_input)) = 1 /\ SourceSegments(search_input) = {}
  /\ \E rec \in Rows : \E c \in SearchableFields :
       \E term \in GroupTerms(search_input, 1) :
         /\ InResult(rec)
         /\ ~HasDiacritic(term) /\ HasDiacritic(rec[c])
         /\ StrippedHas(rec[c], term)
         /\ ~contains(lower(rec[c]), term)
         /\ \A c2 \in SearchableFields \ {c} : ~FieldHas(rec[c2], term)

\* ... and a term with diacritics finds the field that has them ("s^ri^")
C5_WitnessExact ==
  /\ Answered
  /\ Len(Segments(search_input)) = 1 /\ SourceSegments(search_input) = {}
  /\ \E rec \in Rows : \E c \in SearchableFields :
       \E term \in GroupTerms(search_input, 1) :
         /\ InResult(rec)
         /\ HasDiacritic(term)
         /\ contains(lower(rec[c]), term)

(***************************************************************************)
(* Vocabulary of the date order.                                           *)
(***************************************************************************)
SortKey(rec) == parse_date_for_sorting(rec["Date"])

Positions == 1..Len(search_results)

\* the date is unknown or cannot be parsed
DateUnknown(rec) == SortKey(rec) = <<9999, 99, 99>>

\* the year is known, the month or the day is not
DatePartial(rec) ==
  /\ SortKey(rec)[1] # 9999
  /\ SortKey(rec)[2] = 99 \/ SortKey(rec)[3] = 99

DateFull(rec) == SortKey(rec)[1] # 9999 /\ SortKey(rec)[2] # 99 /\ SortKey(rec)[3] # 99

\* a >= b, lexicographically
KeyAtLeast(a, b) ==
  \/ a[1] > b[1]
  \/ a[1] = b[1] /\ a[2] > b[2]
  \/ a[1] = b[1] /\ a[2] = b[2] /\ a[3] >= b[3]

\* the query has no source term and no content group with a term in it
ParsesToNothing(q) ==
  /\ SourceSegments(q) = {}
  /\ \A i \in ContentSegments(q) : GroupTerms(q, i) = {}

\* the place of a row in the dataframe (the rows of a catalogue differ)
Place(rec) == CHOOSE k \in 1..Len(df) : df[k] = rec

(***************************************************************************)
(* C6.  In the result every record with an unknown or unparseable date     *)
(* comes after every record with a known date, and a date with xx for      *)
(* month or day comes after the fully known dates of the same year.        *)
(* Stated for the queries that parse to something, whose result does not   *)
(* depend on what a query without terms selects (C9).                      *)
(***************************************************************************)
C6_UnknownDatesLast ==
  (Answered /\ ~ParsesToNothing(search_input)) =>
    \A i, j \in Positions :
      i < j =>
        /\ ~(DateUnknown(search_results[i]) /\ ~DateUnknown(search_results[j]))
        /\ ~(/\ DatePartial(search_results[i]) /\ DateFull(search_results[j])
             /\ SortKey(search_results[i])[1] = SortKey(search_results[j])[1])

(***************************************************************************)
(* C7.  The result is ordered by sort key, descending: the key of a record *)
(* is lexicographically at least the key of the record after it.           *)
(***************************************************************************)
C7_KeysDescending ==
  searched =>
    \A i \in Positions :
      i < Len(search_results) =>
        KeyAtLeast(SortKey(search_results[i]), SortKey(search_results[i + 1]))

\* a result that the sort had to reorder, with keys that differ in the year
\* and keys of one year that differ in the month
C7_Witness ==
  /\ Answered
  /\ \E i, j \in Positions :
       /\ i < j /\ Place(search_results[i]) > Place(search_results[j])
  /\ \E i, j \in Positions :
       SortKey(search_results[i])[1] > SortKey(search_results[j])[1]
  /\ \E i, j \in Positions :
       /\ SortKey(search_results[i])[1] = SortKey(search_results[j])[1]
       /\ SortKey(search_results[i])[2] > SortKey(search_results[j])[2]

(***************************************************************************)
(* C8.  Filtering and ranking are stable: two records of the result with   *)
(* the same sort key are in the order they have in the dataset.            *)
(***************************************************************************)
C8_StableOrder ==
  searched =>
    \A i, j \in Positions :
      (i < j /\ SortKey(search_results[i]) = SortKey(search_results[j]))
        => Place(search_results[i]) < Place(search_results[j])

\* two pairs of records with equal keys, one pair apart in the dataset, and
\* a record dropped by the filter
C8_Witness ==
  /\ Answered
  /\ total_results < Len(df)
  /\ \E i, j \in Positions :
       /\ i < j /\ SortKey(search_results[i]) = SortKey(search_results[j])
       /\ Place(search_results[j]) > Place(search_results[i]) + 1
  /\ \E i, j \in Positions :
       /\ i < j /\ SortKey(search_results[i]) = SortKey(search_results[j])
       /\ DateFull(search_results[i])

(***************************************************************************)
(* C9.  A non-blank query that parses to no source term and no content     *)
(* group (such as ";") matches nothing: the result is empty.               *)
(***************************************************************************)
C9_NothingParsedNothingFound ==
  (searched /\ ~Blank(search_input) /\ ParsesToNothing(search_input))
    => search_results = <<>>

MaxSourceRows == 3

\* df[df['Source'].astype(str).str.strip() != '']['Source']
valid_sources(frame) ==
  LET mask == [i \in 1..Len(frame) |-> strip(frame[i]["Source"]) # <<>>]
      kept == select_rows(frame, mask, 1)
  IN  [i \in 1..Len(kept) |-> kept[i]["Source"]]

\* how often the value occurs in the series
count_of(values, v) == Cardinality({i \in 1..Len(values) : values[i] = v})

\* the distinct values with their counts, in every order
counted(values) ==
  LET keys == {values[i] : i \in 1..Len(values)}
      n == Cardinality(keys)
  IN  { [i \in 1..n |-> [source |-> order[i], count |-> count_of(values, order[i])]] :
          order \in {o \in [1..n -> keys] : \A i, j \in 1..n : i # j => o[i] # o[j]} }

\* mutant: the counts ascending
value_counts_ascending(values) ==
  { c \in counted(values) :
      \A i, j \in 1..Len(c) : i < j => c[i].count <= c[j].count }

\* Series.value_counts(): one entry per distinct value, the counts
\* descending; pandas sorts the counts with an unstable sort, so the order
\* of entries with equal counts is any of the possible ones
value_counts(values) ==
  { c \in counted(values) :
      \A i, j \in 1..Len(c) : i < j => c[i].count >= c[j].count }

\* the loop over source_counts.items()
sources_of(source_counts) ==
  [i \in 1..Len(source_counts) |->
     [sourceName |-> strip(source_counts[i].source),
      count |-> source_counts[i].count]]

\* get_sources_list(df): the lists it can return
get_sources_list(frame) ==
  IF empty(frame) \/ "Source" \notin columns(frame) THEN { <<>> }
  ELSE { sources_of(source_counts) :
           source_counts \in value_counts(valid_sources(frame)) }

SourceValues == { <<"k">>, <<" ","k">>, <<"s">>, <<" ">>, <<>> }

SourceFrames ==
  UNION { [1..n -> {Row(Date_unknown, <<>>, <<>>, v) : v \in SourceValues}] :
            n \in 0..MaxSourceRows }

\* the session as streamlit_app.py initialises it
session_init ==
  /\ search_results = <<>>
  /\ search_time = 0
  /\ total_results = 0
  /\ searched = FALSE
  /\ first = [done |-> FALSE, results |-> <<>>, total |-> 0, time |-> 0,
              between |-> FALSE]
  /\ session_search_term = <<>>
  /\ current_page = 1

InitSources ==
  /\ df \in SourceFrames
  /\ df0 = df
  /\ search_input = <<>>
  /\ session_init
  /\ event = "none"
  /\ arg = <<>>
  /\ out = <<>>
  /\ hl = hl_idle

\* the sidebar asks for the list of sources
ListSources ==
  /\ event' = "sources"
  /\ UNCHANGED <<df, df0, search_input, search_results, search_time,
                 total_results, searched, first, session_search_term,
                 current_page, arg, hl>>
  /\ out' \in get_sources_list(df)

NextSources == ListSources

SpecSources == InitSources /\ [][NextSources]_vars

\* the records with a non-blank Source, and the source of a record: its
\* Source without the surrounding blanks
Sourced == {i \in 1..Len(df) : ~Blank(df[i]["Source"])}
SourceOf(i) == strip(df[i]["Source"])
FirstSeen(name) == CHOOSE i \in Sourced :
  SourceOf(i) = name /\ \A j \in Sourced : SourceOf(j) = name => i <= j
Listed == event = "sources"

WrittenSources == {df[i]["Source"] : i \in Sourced}

MaxDateLen == 7

DateAlphabet == {"x", ".", "1", " "}

ExtraDates ==
  { Date_2024_01_15, Date_2024_xx_xx, Date_2023_12_31, Date_unknown, Date_2024,
    <<"U","n","k","n","o","w","n">>, <<"U","N","K","N","O","W","N">>,
    <<" ","u","n","k","n","o","w","n">>,
    <<"2","0","2","4",".","X","X",".","0","1">>,
    <<"2","0","2","4",".","x","X",".","0","1">>,
    <<"x","x",".","1","2",".","x","x">>,
    <<"2","0","2","4",".","-","1",".","0","5">>,
    <<"2","0","2","4",".","1","_","0",".","+","5">>,
    <<"2","0","2","4",".","1","_",".","0","5">>,
    <<"2","0","2","4",".","0","1">>,
    <<"1",".","2",".","3",".","4">>,
    <<"2","0","2","4",".","a","b",".","0","1">>,
    <<" ","2","0","2","4",".","0","1",".","x","x"," ">> }

DateTexts ==
  UNION {[1..n -> DateAlphabet] : n \in 0..MaxDateLen} \cup ExtraDates

InitDate ==
  /\ arg \in DateTexts
  /\ df = <<>>
  /\ df0 = df
  /\ search_input = <<>>
  /\ session_init
  /\ event = "none"
  /\ out = <<>>
  /\ hl = hl_idle

\* the sort key of a Date cell is computed
ParseDate ==
  /\ event = "none"
  /\ out' = parse_date_for_sorting(arg)
  /\ event' = "sortKey"
  /\ UNCHANGED <<df, df0, search_input, search_results, search_time,
                 total_results, searched, first, session_search_term,
                 current_page, arg, hl>>

NextDate == ParseDate

SpecDate == InitDate /\ [][NextDate]_vars

\* the key the description gives to a date text
LiteralXX == <<"x","x">>
IsInteger(part) == int_ok(part)
IsUnknownText(text) == text = <<>> \/ lower(text) = Date_unknown
KeyOfParts(parts) ==
  IF /\ Len(parts) = 3
     /\ \A i \in 1..3 : parts[i] # LiteralXX => IsInteger(parts[i])
  THEN << IF parts[1] = LiteralXX THEN 9999 ELSE int(parts[1]),
          IF parts[2] = LiteralXX THEN 99 ELSE int(parts[2]),
          IF parts[3] = LiteralXX THEN 99 ELSE int(parts[3]) >>
  ELSE <<9999, 99, 99>>
Keyed == event = "sortKey"

(***************************************************************************)
(* C12.  sortKey(dateText) is (9999, 99, 99) when dateText is empty or     *)
(* "unknown" in any case, when splitting it on "." does not give three     *)
(* parts, or when a part other than the literal "xx" is not an integer;    *)
(* otherwise it is (year, month, day), "xx" being 9999 as the year and 99  *)
(* as the month or day, every other part its integer value.                *)
(***************************************************************************)
C12_SortKey ==
  Keyed =>
    out = IF IsUnknownText(arg) THEN <<9999, 99, 99>>
          ELSE KeyOfParts(split(arg, <<".">>))

(***************************************************************************)
(* C12, amended.  The same, of dateText without its leading and trailing   *)
(* whitespace: the text is trimmed before it is split, so a part "xx" at   *)
(* either end of a padded text is the literal "xx".                        *)
(***************************************************************************)
C12_SortKeyOfTrimmed ==
  Keyed =>
    out = IF IsUnknownText(arg) THEN <<9999, 99, 99>>
          ELSE KeyOfParts(split(strip(arg), <<".">>))

\* a padded date whose last part is "xx" keeps its year and month
C12_Witness ==
  /\ Keyed
  /\ arg # strip(arg)
  /\ Len(split(arg, <<".">>)) = 3
  /\ strip(split(arg, <<".">>)[3]) = LiteralXX
  /\ out[1] # 9999 /\ out[2] # 99 /\ out[3] = 99

(***************************************************************************)
(* transliterate on its own: every word of up to MaxWordLen characters     *)
(* over WordAlphabet, and some longer words.                               *)
(***************************************************************************)
MaxWordLen == 4

WordAlphabet == {"s", "c", "h", "z", "t", "y", "a", "S", "q"}

ExtraWords ==
  { <<"p","r","i","v","e","t">>, <<"P","r","i","v","e","t">>,
    <<"s","c","h","a","s","t","y","e">>, <<"j","a","y","a">>,
    <<"s^","c","h","i^">>, <<"c:s","h","y","o","1">>,
    <<"Y","U","t","s","Z","H","c","h","x">> }

Words == UNION {[1..n -> WordAlphabet] : n \in 0..MaxWordLen} \cup ExtraWords

InitWord ==
  /\ arg \in Words
  /\ df = <<>>
  /\ df0 = df
  /\ search_input = <<>>
  /\ session_init
  /\ event = "none"
  /\ out = <<>>
  /\ hl = hl_idle

\* a word is transliterated
Transliterate ==
  /\ event = "none"
  /\ out' = transliterate(arg)
  /\ event' = "transliterate"
  /\ UNCHANGED <<df, df0, search_input, search_results, search_time,
                 total_results, searched, first, session_search_term,
                 current_page, arg, hl>>

NextWord == Transliterate

SpecWord == InitWord /\ [][NextWord]_vars

Transliterated == event = "transliterate"
\* the lengths of the keys of the table that start the word
KeyLengths(w) ==
  {n \in 1..3 : n <= Len(w) /\ SubSeq(w, 1, n) \in transliteration_keys}
Longest(lengths) == CHOOSE n \in lengths : \A k \in lengths : k <= n
Rest(w, n) == SubSeq(w, n + 1, Len(w))

(***************************************************************************)
(* C13.  transliterate is greedy and total.  On the lower-cased word: if   *)
(* keys of the table start the word, the result starts with the mapping    *)
(* of the longest of them (of 3, 2 or 1 characters) and goes on with the   *)
(* transliteration of what follows it; if none does, the result starts     *)
(* with the first character itself and goes on with the transliteration of *)
(* the characters after it; every word gets a result, the empty one only   *)
(* for the empty word; "sch", "zh" and "privet" give the Cyrillic letters  *)
(* for sch, zh and p-r-i-v-e-t.                                            *)
(***************************************************************************)
C13_GreedyTotal ==
  /\ event = "none" => (transliterate(arg) = <<>> <=> arg = <<>>)
  /\ Transliterated =>
       LET w == lower(arg)
           lengths == KeyLengths(w)
       IN  /\ w = <<>> => out = <<>>
           /\ (w # <<>> /\ lengths # {}) =>
                out = transliteration_map[SubSeq(w, 1, Longest(lengths))]
                        \o transliterate(Rest(w, Longest(lengths)))
           /\ (w # <<>> /\ lengths = {}) =>
                out = <<w[1]>> \o transliterate(Rest(w, 1))
           /\ arg = <<"s","c","h">> => out = <<"c:sch">>
           /\ arg = <<"z","h">> => out = <<"c:zh">>
           /\ arg = <<"p","r","i","v","e","t">> =>
                out = <<"c:p","c:r","c:i","c:v","c:e","c:t">>

\* a capitalised word that starts with the three-character key and ends
\* with a character that is no key
C13_Witness ==
  /\ Transliterated
  /\ arg = <<"S","c","h","q">>
  /\ out = <<"c:sch","q">>

\* the source names of q without their surrounding whitespace
TrimmedSourceNames(q) == {strip(name) : name \in SourceNames(q)}

(***************************************************************************)
(* C14.  The source term of a segment that starts with "@" is what follows *)
(* the "@", lower-cased and without leading and trailing whitespace, so    *)
(* "@ name" selects what "@name" selects: for a query of @source segments  *)
(* only, a record is in the result iff its Source, lower-cased, contains   *)
(* one of the trimmed source names.                                        *)
(***************************************************************************)
C14_SourceNameTrimmed ==
  (Answered /\ SourceSegments(search_input) # {}
     /\ ContentSegments(search_input) = {}) =>
    \A rec \in Rows :
      InResult(rec) <=>
        \E name \in TrimmedSourceNames(search_input) :
          contains(lower(rec["Source"]), name)

\* q ends with the separator and a segment that is only "//"
EndsWithEmptyGroup(q) ==
  /\ Len(q) >= 3
  /\ SubSeq(q, Len(q) - 2, Len(q)) = <<";", "/", "/">>
WithoutEmptyGroup(q) == SubSeq(q, 1, Len(q) - 3)

(***************************************************************************)
(* C15.  A content segment whose pieces between "//" are all empty adds    *)
(* no group: the answer to q followed by ";//" holds the same records as   *)
(* the answer to q.                                                        *)
(***************************************************************************)
C15_EmptyGroupDropped ==
  (searched /\ EndsWithEmptyGroup(search_input)) =>
    \E r \in {search_data(WithoutEmptyGroup(search_input), df).filtered_df} :
      \A rec \in Rows :
        InResult(rec) <=> \E j \in 1..Len(r) : r[j] = rec

(***************************************************************************)
(* highlight_search_terms.  The markup is text like the field itself, one  *)
(* character per element ("dq" is the double quote), so a later pattern    *)
(* also finds its matches inside the tags written by an earlier one.  The  *)
(* function is followed pass by pass: hl.step is the statement it is at,   *)
(* hl.result the text produced so far.                                     *)
(***************************************************************************)
MaxHighlightTerms == 2

\* the tag that opens a Source span
source_open ==
  <<"<","s","p","a","n"," ","s","t","y","l","e","=","dq","b","a","c","k",
    "g","r","o","u","n","d","-","c","o","l","o","r",":"," ","g","r","e","e",
    "n",";"," ","c","o","l","o","r",":"," ","w","h","i","t","e",";"," ","p",
    "a","d","d","i","n","g",":"," ","2","p","x"," ","4","p","x",";"," ","b",
    "o","r","d","e","r","-","r","a","d","i","u","s",":"," ","3","p","x",";",
    "dq",">">>

\* the tag that opens an Exact span
exact_open ==
  <<"<","s","p","a","n"," ","s","t","y","l","e","=","dq","b","a","c","k",
    "g","r","o","u","n","d","-","c","o","l","o","r",":"," ","y","e","l","l",
    "o","w",";"," ","p","a","d","d","i","n","g",":"," ","2","p","x"," ","4",
    "p","x",";"," ","b","o","r","d","e","r","-","r","a","d","i","u","s",":",
    " ","3","p","x",";","dq",">">>

\* the tag that opens a Diacritic span
diacritic_open ==
  <<"<","s","p","a","n"," ","s","t","y","l","e","=","dq","b","a","c","k",
    "g","r","o","u","n","d","-","c","o","l","o","r",":"," ","l","i","g","h",
    "t","b","l","u","e",";"," ","p","a","d","d","i","n","g",":"," ","2","p",
    "x"," ","4","p","x",";"," ","b","o","r","d","e","r","-","r","a","d","i",
    "u","s",":"," ","3","p","x",";","dq",">">>

\* the tag that opens a Transliterated span
cyrillic_open ==
  <<"<","s","p","a","n"," ","s","t","y","l","e","=","dq","b","a","c","k",
    "g","r","o","u","n","d","-","c","o","l","o","r",":"," ","o","r","a","n",
    "g","e",";"," ","p","a","d","d","i","n","g",":"," ","2","p","x"," ","4",
    "p","x",";"," ","b","o","r","d","e","r","-","r","a","d","i","u","s",":",
    " ","3","p","x",";","dq",">">>

\* the tag that closes a span
span_close ==
  <<"<","/","s","p","a","n",">">>

ascii_alnum ==
  { "a","b","c","d","e","f","g","h","i","j","k","l","m","n","o","p","q","r",
    "s","t","u","v","w","x","y","z","A","B","C","D","E","F","G","H","I","J",
    "K","L","M","N","O","P","Q","R","S","T","U","V","W","X","Y","Z" }
    \cup DigitChars

\* re.search('[a-zA-Z0-9]', text)
has_ascii_alnum(text) == \E i \in 1..Len(text) : text[i] \in ascii_alnum

\* the places (1-based) where the escaped pattern matches text, ignoring case
occurrences(pattern, text) ==
  LET t == lower(text)
      p == lower(pattern)
  IN  {i \in 1..(Len(t) - Len(p) + 1) : SubSeq(t, i, i + Len(p) - 1) = p}

\* the matches pattern.sub takes: from the left, none overlapping another
RECURSIVE leftmost_matches(_, _, _)
leftmost_matches(occs, length, from) ==
  LET later == {i \in occs : i >= from}
  IN  IF later = {} THEN <<>>
      ELSE LET i == CHOOSE i \in later : \A j \in later : i <= j
           IN  <<i>> \o leftmost_matches(occs, length,
                                         IF length = 0 THEN i + 1 ELSE i + length)

\* the text with every match wrapped between the opening tag and </span>
RECURSIVE wrap_matches(_, _, _, _, _)
wrap_matches(text, matches, length, open, pos) ==
  IF matches = <<>> THEN SubSeq(text, pos, Len(text))
  ELSE LET i == Head(matches)
       IN  SubSeq(text, pos, i - 1) \o open \o SubSeq(text, i, i + length - 1)
             \o span_close
             \o wrap_matches(text, Tail(matches), length, open, i + length)

\* re.compile('(' + re.escape(term) + ')', re.IGNORECASE).sub(open \1 </span>, text):
\* the new text and the number of spans written
sub(pattern, open, text) ==
  LET matches == leftmost_matches(occurrences(pattern, text), Len(pattern), 1)
  IN  [result |-> wrap_matches(text, matches, Len(pattern), open, 1),
       spans |-> Len(matches)]

\* the Source pass of a term that starts with "@"
source_pass(term, result) == sub(lower(Tail(term)), source_open, result)

\* the Exact pass of a sub-term
exact_pass(or_term, result) == sub(or_term, exact_open, result)

\* mutant: the Diacritic pass without the test for '<span'
diacritic_pass_unguarded(or_term, result) ==
  LET normalized_term == remove_diacritics(lower(or_term))
  IN  IF normalized_term # lower(or_term)
      THEN sub(normalized_term, diacritic_open, result)
      ELSE [result |-> result, spans |-> 0]

\* the Diacritic pass of a sub-term: only while '<span' is not in the result
diacritic_pass(or_term, result) ==
  LET normalized_term == remove_diacritics(lower(or_term))
  IN  IF /\ normalized_term # lower(or_term)
         /\ ~contains(result, <<"<","s","p","a","n">>)
      THEN sub(normalized_term, diacritic_open, result)
      ELSE [result |-> result, spans |-> 0]

\* the Transliterated pass of a sub-term
cyrillic_pass(or_term, result) ==
  LET normalized_term == remove_diacritics(lower(or_term))
      transliterated_term == transliterate(normalized_term)
  IN  IF /\ transliterated_term # normalized_term
         /\ ~has_ascii_alnum(transliterated_term)
      THEN sub(transliterated_term, cyrillic_open, result)
      ELSE [result |-> result, spans |-> 0]

\* the position after a pass: the new result, and as history the text
\* before the pass, its term, its pattern and the number of spans it wrote
passed(h, kind, or_term, pattern, r) ==
  [h EXCEPT !.result = r.result, !.previous = h.result, !.or_term = or_term,
            !.pattern = pattern, !.last = kind, !.added = r.spans, !.spans = @ + r.spans,
            !.diacritic_spans = IF kind = "diacritic" THEN @ + r.spans ELSE @]

\* the or_term loop goes on with the next sub-term, or the term loop with
\* the next term
next_or_term(h) ==
  IF Tail(h.or_terms) # <<>>
  THEN [h EXCEPT !.or_terms = Tail(@), !.step = "exact"]
  ELSE [h EXCEPT !.or_terms = <<>>, !.terms = Tail(@), !.step = "term"]

highlight_unchanged ==
  UNCHANGED <<df, df0, search_input, search_results, search_time,
              total_results, searched, first, session_search_term,
              current_page, arg>>

\* display_results_table calls highlight_search_terms(arg, search_terms)
\* with the segments of the session's search term
HighlightCall ==
  /\ hl.step = "idle"
  /\ LET search_terms == stripped(split(session_search_term, <<";">>))
     IN  hl' = IF search_terms = <<>>
               THEN [hl_idle EXCEPT !.step = "return", !.result = arg]
               ELSE [hl_idle EXCEPT !.step = "term", !.result = arg,
                                    !.search_terms = search_terms,
                                    !.terms = search_terms]
  /\ event' = "highlight"
  /\ out' = out
  /\ highlight_unchanged

\* an empty term is skipped
HighlightSkip ==
  /\ hl.step = "term" /\ hl.terms # <<>>
  /\ strip(Head(hl.terms)) = <<>>
  /\ hl' = [hl EXCEPT !.terms = Tail(@), !.last = "skip", !.added = 0]
  /\ UNCHANGED <<event, out>>
  /\ highlight_unchanged

\* a term that starts with "@"
HighlightSource ==
  /\ hl.step = "term" /\ hl.terms # <<>>
  /\ LET term == strip(Head(hl.terms))
     IN  /\ term # <<>> /\ startswith(term, <<"@">>)
         /\ hl' = [passed(hl, "source", term, lower(Tail(term)),
                          source_pass(term, hl.result))
                     EXCEPT !.terms = Tail(@)]
  /\ UNCHANGED <<event, out>>
  /\ highlight_unchanged

\* any other term is split into its sub-terms
HighlightGroup ==
  /\ hl.step = "term" /\ hl.terms # <<>>
  /\ LET term == strip(Head(hl.terms))
         or_terms == split_or_terms(term)
     IN  /\ term # <<>> /\ ~startswith(term, <<"@">>)
         /\ hl' = IF or_terms = <<>>
                  THEN [hl EXCEPT !.terms = Tail(@), !.last = "group", !.added = 0]
                  ELSE [hl EXCEPT !.or_terms = or_terms, !.step = "exact",
                                  !.last = "group", !.added = 0]
  /\ UNCHANGED <<event, out>>
  /\ highlight_unchanged

HighlightExact ==
  /\ hl.step = "exact"
  /\ LET or_term == Head(hl.or_terms)
     IN  hl' = [passed(hl, "exact", or_term, or_term, exact_pass(or_term, hl.result))
                  EXCEPT !.step = "diacritic"]
  /\ UNCHANGED <<event, out>>
  /\ highlight_unchanged

HighlightDiacritic ==
  /\ hl.step = "diacritic"
  /\ LET or_term == Head(hl.or_terms)
     IN  hl' = [passed(hl, "diacritic", or_term,
                       remove_diacritics(lower(or_term)),
                       diacritic_pass(or_term, hl.result))
                  EXCEPT !.step = "cyrillic"]
  /\ UNCHANGED <<event, out>>
  /\ highlight_unchanged

HighlightCyrillic ==
  /\ hl.step = "cyrillic"
  /\ LET or_term == Head(hl.or_terms)
     IN  hl' = next_or_term(
                 passed(hl, "cyrillic", or_term,
                        transliterate(remove_diacritics(lower(or_term))),
                        cyrillic_pass(or_term, hl.result)))
  /\ UNCHANGED <<event, out>>
  /\ highlight_unchanged

\* return result
HighlightReturn ==
  /\ \/ hl.step = "term" /\ hl.terms = <<>>
     \/ hl.step = "return"
  /\ event = "highlight"
  /\ hl' = [hl EXCEPT !.step = "returned", !.last = "return", !.added = 0]
  /\ out' = hl.result
  /\ event' = "highlighted"
  /\ highlight_unchanged

\* the field texts and the search terms of the highlighter
FieldTexts ==
  { <<"s","k">>, <<"S^","k">>, <<"c:s"," ","K">>, <<"g">>, <<>> }

HighlightTerms ==
  { <<"k">>, <<"s">>, <<"s^">>, <<"@","k">>, <<"S^","/","/","k">>, <<" ">> }

RECURSIVE joined(_)
joined(terms) ==
  IF terms = <<>> THEN <<>>
  ELSE IF Len(terms) = 1 THEN terms[1]
  ELSE terms[1] \o <<";">> \o joined(Tail(terms))

HighlightQueries ==
  { joined(terms) :
      terms \in UNION {[1..n -> HighlightTerms] : n \in 0..MaxHighlightTerms} }
  \cup { <<"@">>, <<"/","/">>, <<"@"," ","K",";","s^">>,
         <<"S^","K">>, <<"s","/","/","@","k">> }

InitHighlight ==
  /\ arg \in FieldTexts
  /\ session_search_term \in HighlightQueries
  /\ df = <<>>
  /\ df0 = df
  /\ search_input = session_search_term
  /\ search_results = <<>>
  /\ search_time = 0
  /\ total_results = 0
  /\ searched = FALSE
  /\ first = [done |-> FALSE, results |-> <<>>, total |-> 0, time |-> 0,
              between |-> FALSE]
  /\ current_page = 1
  /\ event = "none"
  /\ out = <<>>
  /\ hl = hl_idle

NextHighlight ==
  \/ HighlightCall
  \/ HighlightSkip
  \/ HighlightSource
  \/ HighlightGroup
  \/ HighlightExact
  \/ HighlightDiacritic
  \/ HighlightCyrillic
  \/ HighlightReturn

SpecHighlight == InitHighlight /\ [][NextHighlight]_vars

\* the spans in the text before the last pass
SpansBefore == hl.spans - hl.added
\* the sub-term of the last pass
SubTerm == hl.or_term
DiacriticApplies(subterm) == remove_diacritics(lower(subterm)) # lower(subterm)
TransliteratedApplies(subterm) ==
  /\ transliterate(Normal(subterm)) # Normal(subterm)
  /\ ~has_ascii_alnum(transliterate(Normal(subterm)))
Occurs(pattern, text) == occurrences(pattern, text) # {}

(***************************************************************************)
(* C16.  The Diacritic pass of a sub-term adds spans only when the         *)
(* sub-term changes by stripping its diacritics and the text produced so   *)
(* far holds no span of any earlier pass; once a span has been written the *)
(* Diacritic pass leaves the text as it is.  The Exact, Source and         *)
(* Transliterated passes are never held back by spans already written:     *)
(* where their pattern occurs in the text so far, they add spans.          *)
(***************************************************************************)
C16_DiacriticGuard ==
  /\ hl.last = "diacritic" =>
       /\ hl.added > 0 => (SpansBefore = 0 /\ DiacriticApplies(SubTerm))
       /\ SpansBefore > 0 => hl.result = hl.previous
  /\ (hl.last \in {"exact", "source"} /\ Occurs(hl.pattern, hl.previous))
       => hl.added > 0
  /\ (hl.last = "cyrillic" /\ TransliteratedApplies(SubTerm)
        /\ Occurs(hl.pattern, hl.previous)) => hl.added > 0

\* a Diacritic pass wrote a span while the text had none, and a later
\* Diacritic pass, whose pattern occurs in the text, left the text as it was
C16_Witness ==
  /\ hl.last = "diacritic"
  /\ DiacriticApplies(SubTerm)
  /\ Occurs(hl.pattern, hl.previous)
  /\ SpansBefore > 0 /\ hl.added = 0
  /\ hl.diacritic_spans > 0

\* an Exact pass wrote spans into a text that already had spans
C16_WitnessExact ==
  /\ hl.last = "exact" /\ SpansBefore > 0 /\ hl.added > 0

\* highlight_search_terms has returned, and was called with the one term t
Highlighted(t) == hl.step = "returned" /\ hl.search_terms = <<t>>
ContentTerms ==
  {t \in HighlightTerms : ~Blank(t) /\ Head(t) # "@" /\ split_or_terms(t) = <<t>>}

(***************************************************************************)
(* C17.  The highlighter follows the matcher: when the matcher counts the  *)
(* field f as containing the content term t (the diacritic-stripped,       *)
(* lower-cased f holds the stripped t or its transliteration), then        *)
(* highlight(f, [t]) has wrapped at least one span of f.                   *)
(***************************************************************************)
C17_MatchedIsHighlighted ==
  \A t \in ContentTerms :
    (Highlighted(t) /\ FieldHas(arg, t)) => (hl.spans > 0 /\ out # arg)

(***************************************************************************)
(* DateProcessor.compare_dates (src/utils.py), the comparator "as in the   *)
(* original Google Apps Script": negative when date_a comes first.  A      *)
(* date it cannot take apart makes it raise.                               *)
(***************************************************************************)
compare_dates(date_a, date_b) ==
  LET parts_a == split(date_a, <<".">>)
      parts_b == split(date_b, <<".">>)
      xx == <<"x","x">>
      difference(a, b) ==
        IF int_ok(a) /\ int_ok(b) THEN int(b) - int(a) ELSE "raises"
      days ==
        IF Len(parts_a) < 3 \/ Len(parts_b) < 3 THEN "raises"
        ELSE IF parts_a[3] # xx /\ parts_b[3] # xx
             THEN difference(parts_a[3], parts_b[3])
        ELSE IF parts_a[3] = xx /\ parts_b[3] # xx THEN 1
        ELSE IF parts_a[3] # xx /\ parts_b[3] = xx THEN -1
        ELSE 0
  IN  IF date_a = Date_unknown /\ date_b = Date_unknown THEN 0
      ELSE IF date_a = Date_unknown THEN 1
      ELSE IF date_b = Date_unknown THEN -1
      ELSE IF parts_a[1] # parts_b[1] THEN difference(parts_a[1], parts_b[1])
      ELSE IF Len(parts_a) < 2 \/ Len(parts_b) < 2 THEN "raises"
      ELSE IF parts_a[2] # xx /\ parts_b[2] # xx /\ parts_a[2] # parts_b[2]
           THEN difference(parts_a[2], parts_b[2])
      ELSE IF parts_a[2] = xx /\ parts_b[2] # xx THEN 1
      ELSE IF parts_a[2] # xx /\ parts_b[2] = xx THEN -1
      ELSE days

\* "unknown", or Y.M.D with Y a number and M, D numbers or "xx"
Comparable(date) ==
  \/ date = Date_unknown
  \/ LET parts == split(date, <<".">>)
     IN  /\ Len(parts) = 3
         /\ int_ok(parts[1])
         /\ \A k \in 2..3 : parts[k] = LiteralXX \/ int_ok(parts[k])

(***************************************************************************)
(* C18.  The order of the result agrees with compare_dates: for records    *)
(* at positions i < j whose dates are "unknown" or Y.M.D (M, D numbers or  *)
(* "xx"), compare_dates(date_i, date_j) <= 0, the comparator never wants   *)
(* the later record first.                                                 *)
(***************************************************************************)
C18_OrderAgreesWithComparator ==
  Answered =>
    \A i, j \in Positions :
      (/\ i < j
       /\ Comparable(search_results[i]["Date"])
       /\ Comparable(search_results[j]["Date"]))
        => compare_dates(search_results[i]["Date"], search_results[j]["Date"]) <= 0

(***************************************************************************)
(* The session of main(): one action per UI event, each the run of the     *)
(* script that the event causes.                                           *)
(***************************************************************************)
PAGE_SIZE == 10

MaxCatalogue == 23

\* a catalogue of n records: the names "k", "s" and "s k" in turn, four dates
Catalogue(n) ==
  [i \in 1..n |->
     Row(CASE i % 4 = 0 -> Date_2024_01_15
           [] i % 4 = 1 -> Date_2023_12_31
           [] i % 4 = 2 -> Date_unknown
           [] OTHER -> Date_2024_xx_xx,
         <<>>,
         CASE i % 3 = 0 -> <<"k">>
           [] i % 3 = 1 -> <<"s">>
           [] OTHER -> <<"s"," ","k">>,
         IF i % 2 = 0 THEN <<"k">> ELSE <<>>)]

Catalogues ==
  { Catalogue(0), Catalogue(PAGE_SIZE), Catalogue(PAGE_SIZE + 1),
    Catalogue(2 * PAGE_SIZE), Catalogue(MaxCatalogue) }

TypedQueries ==
  { <<>>, <<" ">>, <<"k">>, <<"s">>, <<"@">>, <<"g">>, <<"s",";","k">>,
    <<"@","k">>, <<"k","/","/","s">> }

InitSession ==
  /\ df \in Catalogues
  /\ df0 = df
  /\ search_input = <<>>
  /\ session_init
  /\ event = "none"
  /\ arg = <<>>
  /\ out = <<>>
  /\ hl = hl_idle

\* mutant: the page is left where it was
page_kept(page) == page

\* st.session_state.current_page = 1
page_after_search(page) == 1

\* (total_results + PAGE_SIZE - 1) // PAGE_SIZE
total_pages == (total_results + PAGE_SIZE - 1) \div PAGE_SIZE

\* the pagination row is drawn
pagination_shown == search_results # <<>> /\ total_results > PAGE_SIZE

session_unchanged == UNCHANGED <<df0, searched, first, arg, out, hl>>

\* a non-blank text is typed, or Search is clicked on it
NewSearch ==
  \E q \in TypedQueries :
    /\ strip(q) # <<>>
    /\ \E r \in {search_data(q, df)} :
         /\ search_input' = q
         /\ search_results' = r.filtered_df
         /\ total_results' = r.total_results
         /\ df' = r.df
         /\ session_search_term' = q
         /\ current_page' = page_after_search(current_page)
         /\ event' = "search"
         /\ session_unchanged
         /\ search_time' \in elapsed_values(q, df)

\* Search is clicked on a blank text
BlankSearch ==
  \E q \in TypedQueries :
    /\ strip(q) = <<>>
    /\ search_input' = q
    /\ search_results' = <<>>
    /\ session_search_term' = <<>>
    /\ total_results' = 0
    /\ current_page' = page_after_search(current_page)
    /\ event' = "blank"
    /\ UNCHANGED <<df, search_time>>
    /\ session_unchanged

PreviousPage ==
  /\ pagination_shown
  /\ ~(current_page <= 1)
  /\ current_page' = current_page - 1
  /\ event' = "previous"
  /\ UNCHANGED <<df, search_input, search_results, search_time, total_results,
                 session_search_term>>
  /\ session_unchanged

NextPage ==
  /\ pagination_shown
  /\ ~(current_page >= total_pages)
  /\ current_page' = current_page + 1
  /\ event' = "next"
  /\ UNCHANGED <<df, search_input, search_results, search_time, total_results,
                 session_search_term>>
  /\ session_unchanged

\* a page between min_value and max_value is entered in "Go to page"
GoToPage ==
  /\ pagination_shown
  /\ \E page_input \in 1..total_pages :
       /\ page_input # current_page
       /\ current_page' = page_input
  /\ event' = "goto"
  /\ UNCHANGED <<df, search_input, search_results, search_time, total_results,
                 session_search_term>>
  /\ session_unchanged

NextSession == NewSearch \/ BlankSearch \/ PreviousPage \/ NextPage \/ GoToPage

SpecSession == InitSession /\ [][NextSession]_vars

\* ceil(total_results / 10)
PagesOfResult ==
  IF total_results % 10 = 0 THEN total_results \div 10
  ELSE total_results \div 10 + 1
LastPage == IF PagesOfResult > 1 THEN PagesOfResult ELSE 1

(***************************************************************************)
(* C19.  After any sequence of UI events the session holds as many         *)
(* search_results as total_results says, current_page is between 1 and     *)
(* max(1, ceil(total_results / 10)), and a new or a blank search leaves    *)
(* current_page at 1.                                                      *)
(***************************************************************************)
C19_SessionInvariant ==
  /\ total_results = Len(search_results)
  /\ current_page \in 1..LastPage
  /\ event \in {"search", "blank"} => current_page = 1

\* Previous was clicked on the last of three pages
C19_Witness ==
  /\ event = "previous"
  /\ LastPage = 3
  /\ current_page = 2

====
